---- MODULE Spec2Model ----
(***************************************************************************)
(* A model of src/app.js, the Watson Work / Yelp webhook bot: the webhook   *)
(* dispatcher, the three handlers, the in-memory conversation map and the   *)
(* outbound calls (authenticate + post message, authenticate + search).     *)
(*                                                                          *)
(* Node runs every handler and every callback to completion, so each is one *)
(* action.  The order of the effects inside one handler is kept in          *)
(* last.trace.  A JavaScript string is modelled as a sequence of string     *)
(* fragments: a message content is the sequence of its characters, '' is    *)
(* the empty sequence and string concatenation is \o.                       *)
(***************************************************************************)
EXTENDS Integers, Sequences, FiniteSets, Bags

VARIABLES inMemoryState, pending, running, last

vars == <<inMemoryState, pending, running, last>>

\* ------------------------------------------------------------------ bounds
\* Outbound calls in flight at once.
MaxPending == 2
\* Businesses in one search response.
MaxBusinesses == 2

\* --------------------------------------------------------------- constants
Undefined == "undefined"

appId == "app-id"
webhookSecret == "webhook-secret"

PROMPT_TO_LIST == <<"Would you like to search for restaurants?">>
WHICH_ZIP == <<"Which zipcode should we search in?">>
CANCEL_REQUEST == <<"No problem! Let us know if you need to later!">>

\* ------------------------------------------------------------------ inputs
\* Conversation ids are the platform's opaque ids and user ids its user ids;
\* one conversation, the bot and one user.
Spaces == {"space-1"}
Users == {appId, "user-1"}

Yes == <<"y", "e", "s">>
Ok == <<"O", "k">>
Y == <<"y">>
No == <<"n", "o">>
Maybe == <<"m", "a", "y", "b", "e">>
Zip10001 == <<"1", "0", "0", "0", "1">>
Empty == <<>>

Contents == {Yes, Ok, Y, No, Maybe, Zip10001, Empty}

Challenges == {"challenge-a", "challenge-b"}

FoodRequestJSON == "{\"lens\":\"Food\",\"category\":\"Request\"}"
FoodOtherJSON == "{\"lens\":\"Food\",\"category\":\"Review\"}"
OtherRequestJSON == "{\"lens\":\"Travel\",\"category\":\"Request\"}"
BadJSON == "{lens"

Payloads == {FoodRequestJSON, FoodOtherJSON, OtherRequestJSON, BadJSON}
AnnotationTypes == {"message-focus", "message-nlp-keywords"}

\* Event types: the three handled ones, an unhandled one, and two names that
\* every JavaScript object inherits from Object.prototype.
OtherTypes == {"message-deleted", "constructor", "__proto__"}

Req(type, spaceId, userId, content, annotationType, annotationPayload, challenge) ==
  [type |-> type, spaceId |-> spaceId, userId |-> userId, content |-> content,
   annotationType |-> annotationType, annotationPayload |-> annotationPayload,
   challenge |-> challenge]

NoReq == Req("none", Undefined, Undefined, Empty, Undefined, Undefined, Undefined)

Requests ==
  {Req("verification", Undefined, Undefined, Empty, Undefined, Undefined, c) :
     c \in Challenges}
  \cup {Req("message-created", s, u, c, Undefined, Undefined, Undefined) :
     s \in Spaces, u \in Users, c \in Contents}
  \cup {Req("message-annotation-added", s, u, Empty, t, p, Undefined) :
     s \in Spaces, u \in Users, t \in AnnotationTypes, p \in Payloads}
  \cup {Req(t, s, "user-1", Empty, Undefined, Undefined, Undefined) :
     t \in OtherTypes, s \in Spaces}

\* ------------------------------------------------------- effects of a step
\* One effect of a handler or callback, in program order.
EvEnd(status) == <<"res.end", status>>
EvSet(name, value) == <<"res.set", name, value>>
EvSend(body) == <<"res.send", 200, body>>
EvRead(spaceId, state) == <<"read", spaceId, state>>
EvWrite(spaceId) == <<"write", spaceId>>
EvDelete(spaceId) == <<"delete", spaceId>>
EvSendMessage(spaceId, message) == <<"sendMessage", spaceId, message>>
EvSearchYelp(zip, spaceId) == <<"searchYelp", zip, spaceId>>
EvThrow(error) == <<"throw", error>>

\* The result of running a piece of code: the conversation map it leaves and
\* the effects it had.
Result(mem, trace) == [mem |-> mem, trace |-> trace]

\* `delete obj[key]`: removes the key when present, does nothing otherwise.
Delete(mem, spaceId) == [s \in (DOMAIN mem) \ {spaceId} |-> mem[s]]

\* An entry that exists is left as it is.
PutIfAbsent(mem, spaceId, entry) ==
  [s \in (DOMAIN mem) \cup {spaceId} |->
     IF s \in DOMAIN mem THEN mem[s] ELSE entry]

\* `obj[key] = value`
Put(mem, spaceId, entry) ==
  [s \in (DOMAIN mem) \cup {spaceId} |-> IF s = spaceId THEN entry ELSE mem[s]]

\* --------------------------------------------------------- CONFIRMATION_REGEX
\* /i: the letters of the pattern match in either case.
Lower(c) ==
  CASE c = "O" -> "o" [] c = "K" -> "k" [] c = "Y" -> "y"
    [] c = "E" -> "e" [] c = "S" -> "s" [] OTHER -> c

CharAt(s, i) == IF i \in 1..Len(s) THEN Lower(s[i]) ELSE Undefined

\* (o)?k at position i
MatchOk(s, i) ==
  \/ CharAt(s, i) = "o" /\ CharAt(s, i + 1) = "k"
  \/ CharAt(s, i) = "k"

\* y(es)? at position i
MatchYes(s, i) ==
  \/ CharAt(s, i) = "y" /\ CharAt(s, i + 1) = "e" /\ CharAt(s, i + 2) = "s"
  \/ CharAt(s, i) = "y"

\* content.match(/((o)?k|y(es)?)/i): the pattern is not anchored, so it
\* matches when some position of the content matches.
Match(content) ==
  \E i \in 1..Len(content) : MatchOk(content, i) \/ MatchYes(content, i)

\* The test of the zip left out: every zip taken for present.
NeverFalsy(str) == FALSE

\* JavaScript truthiness of a string: '' is falsy.
Falsy(str) == str = Empty

\* ------------------------------------------------------------ ignoreMessage
ignoreMessage == <<EvEnd(200)>>

\* The acknowledgement left to the end of the handler.
AcknowledgeLater == <<>>

\* res.status(200).end(), the first statement of checkResponse and of
\* checkAnnotations.
Acknowledge == <<EvEnd(200)>>

\* ----------------------------------------------------------- verifyCallback
\* JSON.stringify({response: c})
JSONstringify(body) == <<"{\"response\":\"", body.response, "\"}">>

\* crypto.createHmac('sha256', key).update(data).digest('hex'), uninterpreted.
HmacSha256Hex(key, data) == <<"hmac-sha256-hex", key, data>>

\* The digest of the bare challenge instead of the serialized body.
hashOfChallenge(req) == HmacSha256Hex(webhookSecret, <<req.challenge>>)

hashToSend(req) ==
  HmacSha256Hex(webhookSecret, JSONstringify([response |-> req.challenge]))

verifyCallback(mem, req) ==
  LET bodyToSend == [response |-> req.challenge]
  IN Result(mem, <<EvSet("X-OUTBOUND-TOKEN", hashToSend(req)),
                   EvSend(bodyToSend), EvEnd(200)>>)

\* ---------------------------------------------------------- listRestaurants
\* Destructuring inMemoryState[spaceId] throws when there is no entry.
listRestaurants(mem, spaceId) ==
  IF spaceId \notin DOMAIN mem
    THEN Result(mem, <<EvThrow("TypeError")>>)
  ELSE IF Falsy(mem[spaceId].zip)
    THEN Result([mem EXCEPT ![spaceId].state = 2],
                <<EvWrite(spaceId), EvSendMessage(spaceId, WHICH_ZIP)>>)
  ELSE Result(mem, <<EvSearchYelp(mem[spaceId].zip, spaceId)>>)

\* ------------------------------------------------------------ checkResponse
\* A conversation without an entry taken for one awaiting confirmation.
StateOfDefaultsToOne(mem, spaceId) ==
  IF spaceId \in DOMAIN mem THEN mem[spaceId].state ELSE 1

\* const state = (inMemoryState[spaceId]) ? inMemoryState[spaceId].state : undefined
\* The state is a number; 0 stands for undefined, which is falsy like it.
StateOf(mem, spaceId) ==
  IF spaceId \in DOMAIN mem THEN mem[spaceId].state ELSE 0

\* The check of the sender left out.
IgnoredWithoutSender(state, userId) == state = 0

\* if (!state || userId === appId)
Ignored(state, userId) == state = 0 \/ userId = appId

\* The cancellation notice sent, the entry kept.
CancelKeepsEntry(mem, spaceId) ==
  Result(mem, <<EvSendMessage(spaceId, CANCEL_REQUEST)>>)

\* The branch of a reply that does not confirm (lines 99-101).
Cancel(mem, spaceId) ==
  Result(Delete(mem, spaceId),
         <<EvDelete(spaceId), EvSendMessage(spaceId, CANCEL_REQUEST)>>)

\* The reply read as a zip but never stored.
StoreZipForgotten(mem, spaceId, content) == Result(mem, <<>>)

\* The first zip kept: a later reply does not overwrite it.
StoreZipFirstWins(mem, spaceId, content) ==
  IF spaceId \in DOMAIN mem /\ mem[spaceId].zip = Empty
    THEN Result([mem EXCEPT ![spaceId].zip = content], <<EvWrite(spaceId)>>)
    ELSE Result(mem, <<>>)

\* inMemoryState[spaceId].zip = req.body.content
StoreZip(mem, spaceId, content) ==
  IF spaceId \in DOMAIN mem
    THEN Result([mem EXCEPT ![spaceId].zip = content], <<EvWrite(spaceId)>>)
    ELSE Result(mem, <<EvThrow("TypeError")>>)

checkResponse(mem, req) ==
  LET spaceId == req.spaceId
      state == StateOf(mem, spaceId)
      head == Acknowledge \o <<EvRead(spaceId, state)>>
  IN IF Ignored(state, req.userId)
       THEN Result(mem, head \o ignoreMessage)
     ELSE IF state = 1 /\ ~Match(req.content)
       THEN LET c == Cancel(mem, spaceId)
            IN Result(c.mem, head \o c.trace)
     ELSE LET z == IF state = 2
                     THEN StoreZip(mem, spaceId, req.content)
                     ELSE Result(mem, <<>>)
              r == listRestaurants(z.mem, spaceId)
          IN Result(r.mem, head \o z.trace \o r.trace)

\* --------------------------------------------------------- checkAnnotations
\* JSON.parse of the annotation payload; a text that is no JSON throws.
JSONparse(text) ==
  CASE text = FoodRequestJSON ->
         [error |-> FALSE, lens |-> "Food", category |-> "Request"]
    [] text = FoodOtherJSON ->
         [error |-> FALSE, lens |-> "Food", category |-> "Review"]
    [] text = OtherRequestJSON ->
         [error |-> FALSE, lens |-> "Travel", category |-> "Request"]
    [] OTHER ->
         [error |-> TRUE, lens |-> Undefined, category |-> Undefined]

\* || written for &&.
IsFoodOrRequest(annotationBody) ==
  annotationBody.lens = "Food" \/ annotationBody.category = "Request"

\* annotationBody.lens === "Food" && annotationBody.category === "Request"
IsFoodRequest(annotationBody) ==
  annotationBody.lens = "Food" /\ annotationBody.category = "Request"

\* The entry created one stage too far.
NewEntryAwaitingZip == [state |-> 2, zip |-> Empty]

\* The entry created with a zip already in it.
NewEntryWithZip == [state |-> 1, zip |-> Zip10001]

\* { state: 1, zip: '' }
NewEntry == [state |-> 1, zip |-> Empty]

checkAnnotations(mem, req) ==
  LET spaceId == req.spaceId
      annotationBody == JSONparse(req.annotationPayload)
  IN IF req.annotationType # "message-focus"
       THEN Result(mem, Acknowledge \o ignoreMessage)
     ELSE IF annotationBody.error
       THEN Result(mem, Acknowledge \o <<EvThrow("SyntaxError")>>)
     ELSE IF IsFoodRequest(annotationBody)
       THEN Result(Put(mem, spaceId, NewEntry),
                   Acknowledge \o <<EvWrite(spaceId),
                                    EvSendMessage(spaceId, PROMPT_TO_LIST)>>)
     ELSE Result(mem, Acknowledge)

\* ------------------------------------------------------------- processEvent
\* processEvent[req.body.type]: a property lookup on an object literal.  It
\* finds the three handlers, and also what the literal inherits from
\* Object.prototype: `constructor` is the function Object, `__proto__` is
\* Object.prototype itself, an object that is no function.
Lookup(type) ==
  CASE type = "verification" -> "verifyCallback"
    [] type = "message-annotation-added" -> "checkAnnotations"
    [] type = "message-created" -> "checkResponse"
    [] type = "constructor" -> "Object"
    [] type = "__proto__" -> "Object.prototype"
    [] OTHER -> Undefined

\* The handler is called when the lookup is truthy; processEvent never calls
\* next(), so the route's second handler (lines 228-240) never runs.
processEvent(mem, req) ==
  LET handler == Lookup(req.type)
  IN CASE handler = "verifyCallback" -> verifyCallback(mem, req)
       [] handler = "checkAnnotations" -> checkAnnotations(mem, req)
       [] handler = "checkResponse" -> checkResponse(mem, req)
       [] handler = "Object" -> Result(mem, <<>>)
       [] handler = "Object.prototype" -> Result(mem, <<EvThrow("TypeError")>>)
       [] OTHER -> Result(mem, ignoreMessage)

\* ------------------------------------------------- the HTTP response of a request
IsEnd(ev) == ev[1] \in {"res.end", "res.send"}

Ends(trace) == {i \in 1..Len(trace) : IsEnd(trace[i])}

FirstEnd(trace) == CHOOSE i \in Ends(trace) : \A j \in Ends(trace) : i <= j

\* The status the client receives: that of the first res.end()/res.send(); an
\* exception thrown before the response is ended makes Express answer 500;
\* a handler that returns without ending the response leaves it unanswered.
ResponseStatus(trace) ==
  IF Ends(trace) # {}
    THEN IF \E i \in 1..FirstEnd(trace) : trace[i][1] = "throw"
           THEN 500 ELSE trace[FirstEnd(trace)][2]
  ELSE IF \E i \in 1..Len(trace) : trace[i][1] = "throw" THEN 500
  ELSE 0

\* ------------------------------------------------------------ search results
Business(name, url, titles, rating) ==
  [name |-> name, url |-> url,
   categories |-> [i \in 1..Len(titles) |-> [title |-> titles[i]]],
   rating |-> rating]

Businesses ==
  {Business("Joe's Pizza", "https://yelp/joes", <<"Pizza", "Italian">>, 4),
   Business("Thai Hut", "https://yelp/thai", <<"Thai">>, 5)}

\* A well-formed search response: its `businesses`, in the provider's order.
Responses ==
  UNION {[1..n -> Businesses] : n \in 0..MaxBusinesses}

\* `${restaurant.rating}`: the number as a string.
NumberToString(n) ==
  CASE n = 0 -> "0" [] n = 1 -> "1" [] n = 2 -> "2" [] n = 3 -> "3"
    [] n = 4 -> "4" [] n = 5 -> "5"

\* The last category shown instead of the first.
BulletLineLastCategory(restaurant) ==
  <<"* [", restaurant.name, "](", restaurant.url, ")",
    " - ", restaurant.categories[Len(restaurant.categories)].title,
    " (Rated: ", NumberToString(restaurant.rating), " stars)\n">>

\* The two `message +=` of one business.
BulletLine(restaurant) ==
  <<"* [", restaurant.name, "](", restaurant.url, ")",
    " - ", restaurant.categories[1].title,
    " (Rated: ", NumberToString(restaurant.rating), " stars)\n">>

RECURSIVE Bullets(_)
Bullets(businesses) ==
  IF businesses = <<>> THEN <<>>
  ELSE BulletLine(Head(businesses)) \o Bullets(Tail(businesses))

ResultsMessage(businesses) ==
  <<"Here are some options:\n\n">> \o Bullets(businesses)

\* The results sent, the entry left in the map.
searchCallbackKeepsEntry(mem, spaceId, businesses) ==
  Result(mem, <<EvSendMessage(spaceId, ResultsMessage(businesses))>>)

\* Only an entry that is waiting for results is deleted.
searchCallbackSparesNewEntry(mem, spaceId, businesses) ==
  Result(IF spaceId \in DOMAIN mem /\ mem[spaceId].state = 1
           THEN mem ELSE Delete(mem, spaceId),
         <<EvSendMessage(spaceId, ResultsMessage(businesses)),
           EvDelete(spaceId)>>)

\* The callback of searchYelp in listRestaurants.
searchCallback(mem, spaceId, businesses) ==
  Result(Delete(mem, spaceId),
         <<EvSendMessage(spaceId, ResultsMessage(businesses)),
           EvDelete(spaceId)>>)

\* ------------------------------------------------------------ outbound calls
\* A call in flight: the token request of sendMessage ("authenticateApp") and
\* the post that follows it ("postMessage"); the token request of searchYelp
\* ("authenticate") and the search that follows it ("search").  What a call
\* carries (the message text, the location) is fixed when it is started and is
\* in the trace of the step that started it; no callback reads it.
Call(call, spaceId) == [call |-> call, spaceId |-> spaceId]

NoCall == Call("none", Undefined)

CallOf(ev) ==
  IF ev[1] = "sendMessage"
    THEN Call("authenticateApp", ev[2])
    ELSE Call("authenticate", ev[3])

\* The calls a trace starts, as a bag.
Started(trace) ==
  LET idx == {i \in 1..Len(trace) : trace[i][1] \in {"sendMessage", "searchYelp"}}
      calls == {CallOf(trace[i]) : i \in idx}
  IN [c \in calls |-> Cardinality({i \in idx : CallOf(trace[i]) = c})]

AuthStatuses == {200, 401}
PostStatuses == {201, 500}

\* What the last step was: the operation, its input (the request, or the call
\* that returned and its outcome), the conversation map it started from and
\* the effects it had, in order.
Last(op, req, call, result, before, trace) ==
  [op |-> op, req |-> req, call |-> call, result |-> result,
   before |-> before, trace |-> trace]

NoEntries == <<>>

\* ------------------------------------------------------------------ actions
Init ==
  /\ inMemoryState = NoEntries
  /\ pending = EmptyBag
  /\ running = TRUE
  /\ last = Last("init", NoReq, NoCall, 0, NoEntries, <<>>)

\* The failure logged and the callback left, the process kept.
ReturnWithoutExit(op, call, result) ==
  /\ pending' = pending (-) SetToBag({call})
  /\ last' = Last(op, NoReq, call, result, inMemoryState, <<>>)
  /\ UNCHANGED <<inMemoryState, running>>

\* process.exit(1), or an exception no one catches in a callback: the process
\* is gone, with the conversation map and every call in flight.
Exit(op, call, result) ==
  /\ running' = FALSE
  /\ inMemoryState' = NoEntries
  /\ pending' = EmptyBag
  /\ last' = Last(op, NoReq, call, result, inMemoryState, <<<<"process.exit", 1>>>>)

\* app.post('/webhook', processEvent, ...): one inbound request.
Webhook(req) ==
  /\ running
  /\ LET r == processEvent(inMemoryState, req)
     IN /\ BagCardinality(pending) + BagCardinality(Started(r.trace)) <= MaxPending
        /\ inMemoryState' = r.mem
        /\ pending' = pending (+) Started(r.trace)
        /\ last' = Last("webhook", req, NoCall, ResponseStatus(r.trace),
                      inMemoryState, r.trace)
  /\ UNCHANGED running

\* The callback of the token request in authenticateApp.
AuthenticateAppReturn(c, status) ==
  /\ running
  /\ BagIn(c, pending)
  /\ c.call = "authenticateApp"
  /\ IF status # 200
       THEN Exit("authenticateApp", c, status)
       ELSE /\ pending' = (pending (-) SetToBag({c}))
                            (+) SetToBag({Call("postMessage", c.spaceId)})
            /\ last' = Last("authenticateApp", NoReq, c, status, inMemoryState, <<>>)
            /\ UNCHANGED <<inMemoryState, running>>

\* A failed post sent again.
PostMessageReturnRetries(c, status) ==
  /\ running
  /\ BagIn(c, pending)
  /\ c.call = "postMessage"
  /\ pending' = IF status = 201 THEN pending (-) SetToBag({c}) ELSE pending
  /\ last' = Last("postMessage", NoReq, c, status, inMemoryState, <<>>)
  /\ UNCHANGED <<inMemoryState, running>>

\* The callback of the post in sendMessage: a status other than 201 is logged.
PostMessageReturn(c, status) ==
  /\ running
  /\ BagIn(c, pending)
  /\ c.call = "postMessage"
  /\ pending' = pending (-) SetToBag({c})
  /\ last' = Last("postMessage", NoReq, c, status, inMemoryState, <<>>)
  /\ UNCHANGED <<inMemoryState, running>>

\* The callback of the token request in authenticate (the search provider).
AuthenticateReturn(c, status) ==
  /\ running
  /\ BagIn(c, pending)
  /\ c.call = "authenticate"
  /\ IF status # 200
       THEN Exit("authenticate", c, status)
       ELSE /\ pending' = (pending (-) SetToBag({c}))
                            (+) SetToBag({Call("search", c.spaceId)})
            /\ last' = Last("authenticate", NoReq, c, status, inMemoryState, <<>>)
            /\ UNCHANGED <<inMemoryState, running>>

\* The search answers with a well-formed body: the callback of searchYelp runs.
SearchReturn(c, businesses) ==
  /\ running
  /\ BagIn(c, pending)
  /\ c.call = "search"
  /\ LET r == searchCallback(inMemoryState, c.spaceId, businesses)
     IN /\ inMemoryState' = r.mem
        /\ pending' = (pending (-) SetToBag({c})) (+) Started(r.trace)
        /\ last' = Last("search", NoReq, c, businesses, inMemoryState, r.trace)
  /\ UNCHANGED running

\* The search answers with a body that is no JSON, or has no `businesses`:
\* JSON.parse or the callback throws, and nothing catches it.
SearchReturnMalformed(c) ==
  /\ running
  /\ BagIn(c, pending)
  /\ c.call = "search"
  /\ Exit("searchMalformed", c, <<>>)

Next ==
  \/ \E req \in Requests : Webhook(req)
  \/ \E c \in BagToSet(pending), status \in AuthStatuses :
       AuthenticateAppReturn(c, status)
  \/ \E c \in BagToSet(pending), status \in PostStatuses :
       PostMessageReturn(c, status)
  \/ \E c \in BagToSet(pending), status \in AuthStatuses :
       AuthenticateReturn(c, status)
  \/ \E c \in BagToSet(pending), businesses \in Responses :
       SearchReturn(c, businesses)
  \/ \E c \in BagToSet(pending) : SearchReturnMalformed(c)

Spec == Init /\ [][Next]_vars

\* Every search that was started gets its token and then a well-formed answer.
TokenGranted == \E c \in BagToSet(pending) : AuthenticateReturn(c, 200)

SearchAnswered ==
  \E c \in BagToSet(pending), businesses \in Responses :
    SearchReturn(c, businesses)

FairSpec == Spec /\ WF_vars(TokenGranted) /\ WF_vars(SearchAnswered)

\* ======================================================================
\* Properties
\* ======================================================================
IsSendMessage(ev) == ev[1] = "sendMessage"
IsSearchYelp(ev) == ev[1] = "searchYelp"
IsStateAccess(ev) == ev[1] \in {"read", "write", "delete"}

\* The sendMessage calls and the searchYelp calls of a step, in order.
Sent(trace) == SelectSeq(trace, IsSendMessage)
Searched(trace) == SelectSeq(trace, IsSearchYelp)

NoOutbound(trace) == Sent(trace) = <<>> /\ Searched(trace) = <<>>

\* The last step handled an inbound request of this type.
Handled(type) == last.op = "webhook" /\ last.req.type = type

\* The stage the conversation of the last request was in when it arrived.
StageBefore ==
  IF last.req.spaceId \in DOMAIN last.before
    THEN last.before[last.req.spaceId].state ELSE 0

HasEntry(s) == s \in DOMAIN inMemoryState

IsIntent(req) ==
  /\ req.type = "message-annotation-added"
  /\ req.annotationType = "message-focus"
  /\ req.annotationPayload = FoodRequestJSON

\* ---------------------------------------------------------------------- C1
\* C1: a message-created event for a conversation that has no entry is
\* ignored, whoever sent it and whatever it says: nothing is sent, no search
\* is started and the conversation map is left as it was (no entry created).
C1_NoEntryMessageIgnored ==
  (Handled("message-created") /\ StageBefore = 0) =>
    /\ NoOutbound(last.trace)
    /\ inMemoryState = last.before
    /\ ~HasEntry(last.req.spaceId)

C1_Witness ==
  /\ Handled("message-created")
  /\ StageBefore = 0
  /\ last.req.userId = "user-1"
  /\ last.req.content = No

\* ---------------------------------------------------------------------- C2
\* C2: an intent annotation (message-focus, lens Food, category Request) for
\* a conversation with no entry creates the entry {state 1, zip ''} and calls
\* sendMessage exactly once, with the prompt PROMPT_TO_LIST.
C2_IntentCreatesEntryAndPrompts ==
  (last.op = "webhook" /\ IsIntent(last.req) /\ StageBefore = 0) =>
    /\ HasEntry(last.req.spaceId)
    /\ inMemoryState[last.req.spaceId] = [state |-> 1, zip |-> Empty]
    /\ Sent(last.trace) = <<EvSendMessage(last.req.spaceId, PROMPT_TO_LIST)>>
    /\ Searched(last.trace) = <<>>

C2_Witness ==
  /\ last.op = "webhook" /\ IsIntent(last.req) /\ StageBefore = 0
  /\ HasEntry(last.req.spaceId)
  /\ Len(Sent(last.trace)) = 1

\* ---------------------------------------------------------------------- C3
\* A reply from a user in stage AwaitingConfirmation.
ConfirmationReply ==
  Handled("message-created") /\ StageBefore = 1 /\ last.req.userId # appId

AdvancedToZip ==
  /\ HasEntry(last.req.spaceId)
  /\ inMemoryState[last.req.spaceId].state = 2
  /\ Sent(last.trace) = <<EvSendMessage(last.req.spaceId, WHICH_ZIP)>>

Cancelled ==
  /\ ~HasEntry(last.req.spaceId)
  /\ Sent(last.trace) = <<EvSendMessage(last.req.spaceId, CANCEL_REQUEST)>>

\* C3: in stage AwaitingConfirmation the replies "yes", "Ok" and "y" advance
\* the conversation to zip-collection, and the replies "no" and "maybe" do not
\* match: they delete the entry and send the cancellation message.
C3_AffirmativeClassification ==
  ConfirmationReply =>
    /\ last.req.content \in {Yes, Ok, Y} => AdvancedToZip
    /\ last.req.content \in {No, Maybe} => Cancelled

\* ---------------------------------------------------------------------- C4
\* C4: a reply from a user in stage AwaitingConfirmation that does not match
\* the confirmation pattern deletes the entry and sends exactly one message,
\* the cancellation notice; no zip prompt, no search.  From then on the
\* conversation has no entry until an intent annotation creates one: no other
\* step creates an entry, and a message without an entry is ignored.
C4_NonMatchingReplyCancels ==
  /\ [](ConfirmationReply /\ ~Match(last.req.content) =>
          /\ Cancelled
          /\ Searched(last.trace) = <<>>)
  /\ [][\A s \in Spaces :
          (~HasEntry(s) /\ s \in DOMAIN inMemoryState') =>
            (last'.op = "webhook" /\ IsIntent(last'.req) /\ last'.req.spaceId = s)]_vars
  /\ [][(last'.op = "webhook" /\ last'.req.type = "message-created"
          /\ ~HasEntry(last'.req.spaceId)) =>
            (NoOutbound(last'.trace) /\ inMemoryState' = inMemoryState)]_vars

C4_Witness ==
  /\ ConfirmationReply
  /\ last.req.content = No
  /\ ~HasEntry(last.req.spaceId)

\* ---------------------------------------------------------------------- C5
\* A reply from a user in stage AwaitingZip.
ZipReply ==
  Handled("message-created") /\ StageBefore = 2 /\ last.req.userId # appId

ZipStored ==
  /\ HasEntry(last.req.spaceId)
  /\ inMemoryState[last.req.spaceId].zip = last.req.content

SearchStarted ==
  Searched(last.trace) = <<EvSearchYelp(last.req.content, last.req.spaceId)>>

\* C5 as claimed: every reply in stage AwaitingZip, the empty one included,
\* is stored as the zip and starts a search with that content as location.
C5_EveryContentSearched == ZipReply => (ZipStored /\ SearchStarted)

\* C5 as amended: every reply in stage AwaitingZip is stored verbatim as the
\* zip; a non-empty one starts exactly one search with that content as
\* location and sends nothing; the empty one starts no search, leaves the
\* conversation in AwaitingZip and sends the zip prompt again.
C5_NonEmptyContentSearched ==
  ZipReply =>
    /\ ZipStored
    /\ last.req.content # Empty => (SearchStarted /\ Sent(last.trace) = <<>>)
    /\ last.req.content = Empty =>
         /\ Searched(last.trace) = <<>>
         /\ inMemoryState[last.req.spaceId].state = 2
         /\ Sent(last.trace) = <<EvSendMessage(last.req.spaceId, WHICH_ZIP)>>

C5_Witness ==
  /\ ZipReply
  /\ last.req.content = Zip10001
  /\ Searched(last.trace) = <<EvSearchYelp(Zip10001, last.req.spaceId)>>

\* ---------------------------------------------------------------------- C6
\* The last step was the callback of a search that returned businesses.
SearchCompleted == last.op = "search"

\* The i-th bullet line of a results message: ten fragments after the header.
LineOf(text, i) == SubSeq(text, 10 * i - 8, 10 * i + 1)

IsBulletOf(line, restaurant) ==
  /\ Len(line) = 10
  /\ line[1] = "* ["
  /\ line[2] = restaurant.name
  /\ line[4] = restaurant.url
  /\ line[7] = restaurant.categories[1].title
  /\ line[9] = NumberToString(restaurant.rating)
  /\ line[10] = " stars)\n"

C7_BotEventsInert ==
  (last.op = "webhook" /\ last.req.userId = appId) =>
    (inMemoryState = last.before /\ NoOutbound(last.trace))

\* C7 as amended: a message-created event whose userId is the bot's own appId
\* leaves the conversation map as it was and starts no send and no search, in
\* every stage (Idle, AwaitingConfirmation, AwaitingZip).
C7_BotMessagesInert ==
  (Handled("message-created") /\ last.req.userId = appId) =>
    (inMemoryState = last.before /\ NoOutbound(last.trace))

C7_Witness ==
  /\ Handled("message-created")
  /\ last.req.userId = appId
  /\ StageBefore = 2
  /\ last.req.content = Zip10001

\* ---------------------------------------------------------------------- C8
HandledTypes == {"verification", "message-annotation-added", "message-created"}

\* C8: every inbound webhook request is answered with HTTP 200, whatever its
\* type; a request of a type other than the three handled ones is answered
\* 200, changes no state and starts no outbound call.
C8_EveryRequestAnswered200 ==
  last.op = "webhook" =>
    /\ last.result = 200
    /\ last.req.type \notin HandledTypes =>
         (inMemoryState = last.before /\ NoOutbound(last.trace))

\* ---------------------------------------------------------------------- C9
\* C9: in the handling of a message-annotation-added or message-created
\* request the first effect is res.status(200).end(): every read or change of
\* the conversation map and every sendMessage or searchYelp comes after it,
\* and the calls the handler starts are still in flight when it returns.
C9_AcknowledgedFirst ==
  (Handled("message-annotation-added") \/ Handled("message-created")) =>
    /\ last.trace # <<>>
    /\ last.trace[1] = EvEnd(200)
    /\ last.result = 200
    /\ \A i \in 1..Len(last.trace) :
         (IsStateAccess(last.trace[i]) \/ IsSendMessage(last.trace[i])
            \/ IsSearchYelp(last.trace[i])) => FirstEnd(last.trace) < i
    /\ \A c \in DOMAIN Started(last.trace) : BagIn(c, pending)

C9_Witness ==
  /\ Handled("message-created")
  /\ Len(Searched(last.trace)) = 1
  /\ \E i \in 1..Len(last.trace) : IsStateAccess(last.trace[i])

C11_ConfirmationAdvancesToZip ==
  /\ (ConfirmationReply /\ Match(last.req.content)) =>
       (AdvancedToZip /\ Searched(last.trace) = <<>>)
  /\ (Handled("message-created") /\ StageBefore = 1) =>
       Searched(last.trace) = <<>>

C11_Witness ==
  /\ ConfirmationReply
  /\ last.req.content = Ok
  /\ inMemoryState[last.req.spaceId] = [state |-> 2, zip |-> Empty]

\* --------------------------------------------------------------------- C12
\* The searches of a conversation that are in flight (token request or search).
SearchesInFlight(s) ==
  LET calls == {c \in BagToSet(pending) :
                  c.spaceId = s /\ c.call \in {"authenticate", "search"}}
  IN IF calls = {} THEN 0
     ELSE BagCardinality([c \in calls |-> CopiesIn(c, pending)])

\* A reply in stage AwaitingZip handled while an earlier search of the same
\* conversation has not completed.
ZipReplyDuringSearch ==
  /\ ZipReply
  /\ SearchesInFlight(last.req.spaceId) - Len(Searched(last.trace)) >= 1

\* C12 as claimed: a reply in stage AwaitingZip handled while an earlier
\* search of the conversation is in flight is neither queued nor dropped: it
\* overwrites the stored zip and starts its own search with its own content.
C12_EveryOverlappingReplySearches ==
  ZipReplyDuringSearch =>
    /\ ZipStored
    /\ SearchStarted
    /\ SearchesInFlight(last.req.spaceId) >= 2

\* C12 as amended: such a reply with a non-empty content overwrites the stored
\* zip (last write wins) and starts its own search with its own content, next
\* to the one in flight; each search that completes sends its own results
\* message, also when the entry is already gone.
C12_NonEmptyOverlappingReplySearches ==
  /\ (ZipReplyDuringSearch /\ last.req.content # Empty) =>
       /\ ZipStored
       /\ SearchStarted
       /\ SearchesInFlight(last.req.spaceId) >= 2
  /\ SearchCompleted =>
       /\ Len(Sent(last.trace)) = 1
       /\ Sent(last.trace)[1][3] = ResultsMessage(last.result)

C12_Witness ==
  /\ ZipReplyDuringSearch
  /\ last.req.content = Zip10001
  /\ last.before[last.req.spaceId].zip = Yes
  /\ inMemoryState[last.req.spaceId].zip = Zip10001
  /\ SearchesInFlight(last.req.spaceId) = 2

\* --------------------------------------------------------------------- C13
AuthFailed ==
  last.op \in {"authenticateApp", "authenticate"} /\ last.result # 200

C14_PostFailureSwallowed ==
  [][(last'.op = "postMessage") =>
       /\ inMemoryState' = inMemoryState
       /\ running'
       /\ pending' = pending (-) SetToBag({last'.call})
       /\ last'.trace = <<>>]_vars

C14_Witness ==
  /\ last.op = "postMessage"
  /\ last.result = 500
  /\ HasEntry(last.call.spaceId)
  /\ inMemoryState[last.call.spaceId].state = 1

\* --------------------------------------------------------------------- C15
\* C15: a message-annotation-added event that is no intent (its annotationType
\* is not message-focus, or its payload does not have lens Food and category
\* Request) leaves the conversation map as it was and starts no outbound call,
\* in every stage.
C15_NonIntentAnnotationInert ==
  (Handled("message-annotation-added") /\ ~IsIntent(last.req)) =>
    (inMemoryState = last.before /\ NoOutbound(last.trace))

C15_Witness ==
  /\ Handled("message-annotation-added")
  /\ last.req.annotationType = "message-focus"
  /\ last.req.annotationPayload = FoodOtherJSON
  /\ StageBefore = 2

\* --------------------------------------------------------------------- C16
\* The step from the unprimed to the primed state is a reply from a user in
\* stage AwaitingConfirmation that does not match the confirmation pattern.
DeclineStep(s) ==
  /\ last'.op = "webhook"
  /\ last'.req.type = "message-created"
  /\ last'.req.spaceId = s
  /\ last'.req.userId # appId
  /\ inMemoryState[s].state = 1
  /\ ~Match(last'.req.content)

\* C16: when every started search gets its token and a well-formed answer,
\* a conversation with a search in flight eventually has no entry; and while
\* the process runs an entry is removed only by the callback of a search of
\* that conversation or by a non-matching reply in stage AwaitingConfirmation.
C16_SearchLeadsToIdle ==
  /\ \A s \in Spaces : (SearchesInFlight(s) > 0) ~> ~HasEntry(s)
  /\ [][\A s \in Spaces :
          (HasEntry(s) /\ s \notin DOMAIN inMemoryState' /\ running') =>
            \/ last'.op = "search" /\ last'.call.spaceId = s
            \/ DeclineStep(s)]_vars

C16_Witness ==
  /\ SearchCompleted
  /\ running
  /\ last.call.spaceId \in DOMAIN last.before
  /\ last.before[last.call.spaceId].state = 2
  /\ ~HasEntry(last.call.spaceId)

\* --------------------------------------------------------------------- C17
\* C17: every entry has state 1 or 2, and an entry with state 1 has the zip
\* ''; a search is only started by a message handled in state 2, for an entry
\* that is in state 2, and never with '' as location.
C17_EntryShapeAndSearchOrigin ==
  /\ \A s \in DOMAIN inMemoryState :
       /\ inMemoryState[s].state \in {1, 2}
       /\ inMemoryState[s].state = 1 => inMemoryState[s].zip = Empty
  /\ \A i \in 1..Len(last.trace) :
       IsSearchYelp(last.trace[i]) =>
         /\ Handled("message-created")
         /\ StageBefore = 2
         /\ HasEntry(last.req.spaceId)
         /\ inMemoryState[last.req.spaceId].state = 2
         /\ last.trace[i][2] # Empty
         /\ last.trace[i][2] = inMemoryState[last.req.spaceId].zip

C17_Witness ==
  /\ Handled("message-created")
  /\ Len(Searched(last.trace)) = 1
  /\ inMemoryState[last.req.spaceId] = [state |-> 2, zip |-> Zip10001]

\* --------------------------------------------------------------------- C18
\* C18: an intent annotation for a conversation that has an entry, in state 1
\* or 2, overwrites it with {state 1, zip ''}, whatever zip it held, and calls
\* sendMessage once with PROMPT_TO_LIST, as for a conversation without entry.
C18_IntentOverwritesEntry ==
  (last.op = "webhook" /\ IsIntent(last.req) /\ StageBefore \in {1, 2}) =>
    /\ HasEntry(last.req.spaceId)
    /\ inMemoryState[last.req.spaceId] = [state |-> 1, zip |-> Empty]
    /\ Sent(last.trace) = <<EvSendMessage(last.req.spaceId, PROMPT_TO_LIST)>>
    /\ Searched(last.trace) = <<>>

C18_Witness ==
  /\ last.op = "webhook" /\ IsIntent(last.req)
  /\ StageBefore = 2
  /\ last.before[last.req.spaceId].zip = Zip10001
  /\ inMemoryState[last.req.spaceId] = [state |-> 1, zip |-> Empty]

\* --------------------------------------------------------------------- C19
\* C19: the callback of a search deletes the entry the conversation has when
\* it runs, also an entry that an intent annotation created in state 1 while
\* the search was in flight; a reply that follows is then ignored.
C19_CompletionDeletesNewEntry ==
  /\ [](SearchCompleted /\ last.call.spaceId \in DOMAIN last.before =>
          /\ ~HasEntry(last.call.spaceId)
          /\ inMemoryState = Delete(last.before, last.call.spaceId))
  /\ [][(SearchCompleted /\ last.call.spaceId \in DOMAIN last.before
          /\ last.before[last.call.spaceId].state = 1
          /\ last'.op = "webhook" /\ last'.req.type = "message-created"
          /\ last'.req.spaceId = last.call.spaceId) =>
            /\ last'.trace = Acknowledge \o <<EvRead(last'.req.spaceId, 0)>>
                               \o ignoreMessage
            /\ inMemoryState' = inMemoryState]_vars

C19_Witness ==
  /\ SearchCompleted
  /\ last.call.spaceId \in DOMAIN last.before
  /\ last.before[last.call.spaceId] = [state |-> 1, zip |-> Empty]
  /\ ~HasEntry(last.call.spaceId)

\* --------------------------------------------------------------------- C20
\* C20: on every path through the dispatcher and its handlers the response of
\* a request is completed exactly once: never twice, never left unanswered.
C20_RespondedExactlyOnce ==
  last.op = "webhook" => Cardinality(Ends(last.trace)) = 1

====
